---- MODULE Spec2Model ----
(***************************************************************************)
(* Model of gen_image/main.py: a batch of image-generation task units run  *)
(* as asyncio tasks on one event loop.  A unit encodes a reference file,   *)
(* calls the remote generation service under the semaphore `sem`, and on a *)
(* usable locator downloads the result into output/<batch_subdir>/.        *)
(*                                                                         *)
(* An action is one run of a coroutine between two suspension points (the  *)
(* event loop is single-threaded and cooperative).  The remote service,    *)
(* the download server, the file systems and the wall clock are the        *)
(* environment: their answers are the inputs drawn with \E.                *)
(***************************************************************************)
EXTENDS Integers, Sequences, FiniteSets, TLC

----------------------------------------------------------------------------
(* Bounds of the model *)

\* Largest number of task units in one batch (|ref_name_list| * |listing|).
MaxUnits == 6

\* Largest number of task units in a batch where every stage may fail.
MaxFaultUnits == 3

\* Largest reading of the wall clock (readings are 0..MaxClock).
MaxClock == 1

----------------------------------------------------------------------------
(* Values *)

\* Python's None, as a str-typed value and as a path-typed value.
None == "None"
NoPath == [dir |-> <<"None">>, name |-> -1]

\* A local variable that was not assigned yet.
Unset == "unset"
UnsetPath == [dir |-> <<"unset">>, name |-> -1]
NoB64 == <<"None">>
NoSubdir == <<"None">>
UnsetB64 == <<"unset">>

\* The empty str.
EmptyStr == ""

\* Where the environment can make a call of the program fail.
FaultSites == {"generate", "data", "nourl", "mkdir", "get", "status", "write"}

\* What the environment can do during a batch: fail a call at one of the sites,
\* or advance the wall clock by one microsecond ("tick").
EnvEvents == FaultSites \cup {"tick"}

\* The locator the service answers with (response.data[0].url).
Locator == "https://ark/result.png"

\* File names are sequences of characters.
FileA == <<"a", ".", "p">>
FileB == <<"b", "_", "p">>
FileNames == {FileA, FileB}

\* What os.listdir("input") can return, files only (an order is part of it).
Listings == {<< >>, <<FileA>>, <<FileA, FileB>>}

\* How <script dir>/input/<name> looks to the encoder.
FileStates == {"ok", "missing", "unreadable"}

\* str.replace(old, new) on a sequence of characters.
Replace(s, old, new) == [i \in 1..Len(s) |-> IF s[i] = old THEN new ELSE s[i]]

\* Variant: the `if url:` test left out.
TruthyAlways(v) == TRUE

\* Python truthiness of an Optional[str].
Truthy(v) == v /= None /\ v /= EmptyStr

\* sem = asyncio.Semaphore(5)
SemPermits == 5

----------------------------------------------------------------------------
(* State *)

VARIABLES
  mainpc,      \* where main() is: "setup", "gathering", "done", "crashed"
  names,       \* ref_name_list
  listing,     \* ref_image_name_list, what os.listdir("input") returned
  inputDir,    \* <script dir>/input as the encoder finds it: name -> FileStates
  env,         \* what the environment does in this run, a subset of EnvEvents
  tasks,       \* tasks_to_run
  pc,          \* per unit: "new", "waiting", "woken", "generating", "fetching",
               \*           "done", "raised"
  b64,         \* per unit: b64_data of run_single_task
  sent,        \* per unit: the image argument of client.images.generate
  gen,         \* per unit: what the service answered, one of GenOutcomes
  url,         \* per unit: url of run_single_task
  path,        \* per unit: target_path of image_url_to_localpath
  stamp,       \* per unit: the reading of datetime.now() its artifact is named by
  ret,         \* per unit: what image_url_to_localpath returned
  dl,          \* per unit: how the fetch went, "mkdir" or one of FetchOutcomes
  genCalls,    \* per unit: calls of client.images.generate
  fetchCalls,  \* per unit: calls of image_url_to_localpath
  getCalls,    \* per unit: calls of http_client.get
  writes,      \* per unit: completed calls of target_path.write_bytes
  semValue,    \* sem._value
  semWaiters,  \* sem._waiters, oldest first
  now,         \* the wall clock, in microseconds
  dirs,        \* directories under output/
  files        \* files under output/

unitVars == <<pc, b64, sent, gen, url, path, stamp, ret, dl, genCalls, fetchCalls, getCalls,
              writes>>
semVars == <<semValue, semWaiters>>
inputVars == <<names, listing, inputDir, env>>
diskVars == <<dirs, files>>
vars == <<mainpc, inputVars, tasks, unitVars, semVars, now, diskVars>>

Units == DOMAIN tasks

----------------------------------------------------------------------------
(* What the except clauses cover *)

\* Variant: read_bytes() outside the try.
EncoderCatchesNothing(site) == FALSE

\* image_localpath_to_base64: the try spans exists() and read_bytes().
EncoderCatches(site) == site \in {"exists", "read"}

\* Variant: no try around the remote call.
ClientCatchesNothing(site) == FALSE

\* image_generate_api: the try spans the call and response.data[0].url.
ClientCatches(site) == site \in {"generate", "data"}

\* Variant: the fetcher without its try.
FetcherCatchesNothing(site) == FALSE

\* Variant: mkdir ahead of the try.
FetcherCatchesNoMkdir(site) == site \in {"get", "status", "write"}

\* image_url_to_localpath: the try spans mkdir, get, raise_for_status, write_bytes.
FetcherCatches(site) == site \in {"mkdir", "get", "status", "write"}

----------------------------------------------------------------------------
(* Local Encoder *)

B64Encode(bytes) == <<"b64">> \o bytes
ReadBytes(filename) == <<"bytes">> \o filename
DataUri(encoded) == <<"data:image/jpeg;base64,">> \o encoded

\* Variant: no exists() test, read_bytes() outside the try.
image_localpath_to_base64_unchecked(filename) ==
  IF inputDir[filename] = "ok"
  THEN [val |-> DataUri(B64Encode(ReadBytes(filename))), raised |-> FALSE]
  ELSE [val |-> NoB64, raised |-> TRUE]

\* Variant: the encoder never produces a payload.
image_localpath_to_base64_none(filename) == [val |-> NoB64, raised |-> FALSE]

\* [val, raised]: the returned value, or an exception left the function.
image_localpath_to_base64(filename) ==
  CASE inputDir[filename] = "missing" ->
         [val |-> NoB64, raised |-> FALSE]
    [] inputDir[filename] = "unreadable" ->
         [val |-> NoB64, raised |-> ~EncoderCatches("read")]
    [] OTHER ->
         [val |-> DataUri(B64Encode(ReadBytes(filename))), raised |-> FALSE]

----------------------------------------------------------------------------
(* asyncio.Semaphore *)

\* Variant: the counter is not looked at.
LockedIgnoresValue == Len(semWaiters) > 0

\* Semaphore.locked(): no permit left, or somebody is queued.
Locked == semValue = 0 \/ Len(semWaiters) > 0

\* The waiters whose future is not done yet.
Pending(ws) == SelectSeq(ws, LAMBDA w : pc[w] = "waiting")

\* Variant: release counts the permit up and wakes nobody.
ReleaseNoWakeup == [value |-> semValue + 1, woken |-> {}]

\* Semaphore.release(): one more permit, handed at once to the oldest waiter
\* whose future is not done. [value, woken]: the counter and the waiters woken.
Release ==
  IF Pending(semWaiters) = << >>
  THEN [value |-> semValue + 1, woken |-> {}]
  ELSE [value |-> semValue, woken |-> {Head(Pending(semWaiters))}]

\* The waiters without unit u (self._waiters.remove(fut)).
Remove(ws, u) == SelectSeq(ws, LAMBDA w : w /= u)

----------------------------------------------------------------------------
(* Batch Orchestrator: main() *)

\* Variant: one tag for the whole run.
BatchSubdirShared(img) == <<"run">>

\* batch_subdir of a task
BatchSubdir(img) == Replace(img, ".", "_")

\* Variant: names and files paired position by position.
TasksToRunZip(ns, imgs) ==
  [k \in 1..(IF Len(ns) < Len(imgs) THEN Len(ns) ELSE Len(imgs)) |->
     [prompt |-> ns[k], ref_file |-> imgs[k], batch_subdir |-> BatchSubdir(imgs[k])]]

\* The comprehension of tasks_to_run: names outer, files inner.
TasksToRun(ns, imgs) ==
  [k \in 1..(Len(ns) * Len(imgs)) |->
     LET i == ((k - 1) \div Len(imgs)) + 1
         j == ((k - 1) % Len(imgs)) + 1
     IN [prompt |-> ns[i], ref_file |-> imgs[j], batch_subdir |-> BatchSubdir(imgs[j])]]

\* The state when main() is entered. A batch of at most MaxFaultUnits units runs
\* in an environment that does everything of EnvEvents; a larger one, of up to
\* MaxUnits units, in one that only makes generation calls fail. The encoder's
\* view of a file that is not listed plays no part and is fixed; with one name
\* every listed file may be absent or unreadable to it, with more names the
\* last listed file only.
Init ==
  /\ mainpc = "setup"
  /\ \E n \in 1..MaxUnits : names = [i \in 1..n |-> i]
  /\ listing \in Listings
  /\ \/ Len(names) * Len(listing) <= MaxFaultUnits /\ env = EnvEvents
     \/ /\ Len(names) * Len(listing) \in (MaxFaultUnits + 1)..MaxUnits
        /\ env = {"generate"}
  /\ inputDir \in [FileNames -> FileStates]
  /\ \A f \in FileNames : (\A j \in DOMAIN listing : listing[j] /= f) => inputDir[f] = "missing"
  /\ Len(names) > 1 => \A j \in DOMAIN listing : j < Len(listing) => inputDir[listing[j]] = "ok"
  /\ tasks = << >>
  /\ pc = << >> /\ b64 = << >> /\ sent = << >> /\ gen = << >> /\ url = << >>
  /\ path = << >> /\ stamp = << >> /\ ret = << >> /\ dl = << >>
  /\ genCalls = << >> /\ fetchCalls = << >> /\ getCalls = << >> /\ writes = << >>
  /\ semValue = SemPermits
  /\ semWaiters = << >>
  /\ now = 0
  /\ dirs = {}
  /\ files = {}

\* main() up to the gather: build the units and create one task for each.
Launch ==
  /\ mainpc = "setup"
  /\ tasks' = TasksToRun(names, listing)
  /\ LET U == DOMAIN TasksToRun(names, listing) IN
       /\ pc' = [u \in U |-> "new"]
       /\ b64' = [u \in U |-> UnsetB64]
       /\ sent' = [u \in U |-> UnsetB64]
       /\ gen' = [u \in U |-> Unset]
       /\ url' = [u \in U |-> Unset]
       /\ stamp' = [u \in U |-> -1]
       /\ writes' = [u \in U |-> 0]
       /\ path' = [u \in U |-> UnsetPath]
       /\ ret' = [u \in U |-> UnsetPath]
       /\ dl' = [u \in U |-> Unset]
       /\ genCalls' = [u \in U |-> 0]
       /\ fetchCalls' = [u \in U |-> 0]
       /\ getCalls' = [u \in U |-> 0]
  /\ mainpc' = "gathering"
  /\ UNCHANGED <<inputVars, semVars, now, diskVars>>

\* Variant: wait for the first task only.
GatherFirstCompleted == \E u \in Units : pc[u] = "done"

\* gather() returns once every task has resolved; it re-raises at once the first
\* exception a task ended with.
GatherResolved == \A u \in Units : pc[u] = "done"

GatherReturn ==
  /\ mainpc = "gathering"
  /\ IF \E u \in Units : pc[u] = "raised"
     THEN mainpc' = "crashed"
     ELSE GatherResolved /\ mainpc' = "done"
  /\ UNCHANGED <<inputVars, tasks, unitVars, semVars, now, diskVars>>

----------------------------------------------------------------------------
(* Remote Fetcher: image_url_to_localpath *)

\* output_dir for a subdir
OutputDir(subdir) == IF subdir = NoSubdir THEN <<"output">> ELSE <<"output">> \o subdir

\* Variant: the format of run_batch_name, without %f.
TargetPathSeconds(dir, clock) == [dir |-> dir, name |-> clock \div 1000000]

\* target_path: the directory and the clock reading formatted with %f.
TargetPath(dir, clock) == [dir |-> dir, name |-> clock]

\* What the download can answer, and the except site each failure is raised at.
FetchOutcomes == {"get", "status", "write", "ok"}

\* Variant: the body is written without raise_for_status().
WriteBytesNoStatusCheck(fs, p, o) == IF o \in {"ok", "status"} THEN fs \cup {p} ELSE fs

\* target_path.write_bytes(resp.content), reached on the outcome "ok" only.
WriteBytes(fs, p, o) == IF o = "ok" THEN fs \cup {p} ELSE fs

----------------------------------------------------------------------------
(* Generation Client: image_generate_api *)

\* What the service can answer: a locator ("locator"), an exception out of
\* client.images.generate ("generate"), a response whose data list is empty, so
\* that response.data[0] raises ("data"), a response whose url is None ("nourl").
GenOutcomes == {"locator", "generate", "data", "nourl"}

\* The value image_generate_api returns for an answer.
GenUrl(g) == IF g = "locator" THEN Locator ELSE None

\* An exception leaves image_generate_api.
GenRaises(g) == g \in {"generate", "data"} /\ ~ClientCatches(g)

\* Variant: acquire and release by hand, the release skipped by an exception.
SemExitLeak(g) ==
  IF g \in {"generate", "data"} THEN [value |-> semValue, woken |-> {}] ELSE Release

\* Variant: the permit is kept for the download that follows a locator.
SemExitHeldOnSuccess(g) ==
  IF g = "locator" THEN [value |-> semValue, woken |-> {}] ELSE Release

\* Variant: acquire without a release.
SemExitNoRelease(g) == [value |-> semValue, woken |-> {}]

\* Leaving `async with sem`, whatever the answer was.
SemExit(g) == Release

----------------------------------------------------------------------------
(* Task Runner: run_single_task, one action per run between suspensions *)

\* The task starts: encode, log, and enter image_generate_api up to the first
\* suspension, which is the semaphore or the remote call. Tasks start in the
\* order gather created them.
Start(u) ==
  /\ mainpc = "gathering"
  /\ pc[u] = "new"
  /\ \A v \in Units : v < u => pc[v] /= "new"
  /\ LET enc == IF tasks[u].ref_file /= << >>
                THEN image_localpath_to_base64(tasks[u].ref_file)
                ELSE [val |-> NoB64, raised |-> FALSE]
     IN /\ b64' = [b64 EXCEPT ![u] = enc.val]
        /\ IF enc.raised
           THEN /\ pc' = [pc EXCEPT ![u] = "raised"]
                /\ UNCHANGED <<sent, genCalls, semVars>>
           ELSE IF ~Locked
           THEN /\ semValue' = semValue - 1
                /\ pc' = [pc EXCEPT ![u] = "generating"]
                /\ sent' = [sent EXCEPT ![u] = enc.val]
                /\ genCalls' = [genCalls EXCEPT ![u] = @ + 1]
                /\ UNCHANGED semWaiters
           ELSE /\ semWaiters' = Append(semWaiters, u)
                /\ pc' = [pc EXCEPT ![u] = "waiting"]
                /\ UNCHANGED <<sent, genCalls, semValue>>
  /\ UNCHANGED <<mainpc, inputVars, tasks, gen, url, path, stamp, ret, dl, fetchCalls,
                 getCalls, writes, now, diskVars>>

\* A woken waiter resumes in Semaphore.acquire, leaves the queue, passes a spare
\* permit on, and issues the remote call.
Wakeup(u) ==
  /\ mainpc = "gathering"
  /\ pc[u] = "woken"
  /\ LET rest == Remove(semWaiters, u)
         next == IF semValue > 0 /\ Pending(rest) /= << >>
                 THEN {Head(Pending(rest))} ELSE {}
     IN /\ semWaiters' = rest
        /\ semValue' = semValue - Cardinality(next)
        /\ pc' = [v \in Units |-> IF v = u THEN "generating"
                                  ELSE IF v \in next THEN "woken" ELSE pc[v]]
  /\ sent' = [sent EXCEPT ![u] = b64[u]]
  /\ genCalls' = [genCalls EXCEPT ![u] = @ + 1]
  /\ UNCHANGED <<mainpc, inputVars, tasks, b64, gen, url, path, stamp, ret, dl,
                 fetchCalls, getCalls, writes, now, diskVars>>

\* The remote call answers g: leave the semaphore, return to run_single_task and,
\* on a truthy url, run image_url_to_localpath up to the GET (mkdir answers m).
GenerateReturn(u, g, m) ==
  /\ mainpc = "gathering"
  /\ pc[u] = "generating"
  /\ g /= "locator" => g \in env /\ m = "ok"
  /\ m /= "ok" => "mkdir" \in env
  /\ LET rel == SemExit(g)
         dir == OutputDir(tasks[u].batch_subdir)
         upc == IF GenRaises(g) THEN "raised"
                ELSE IF ~Truthy(GenUrl(g)) THEN "done"
                ELSE IF m = "ok" THEN "fetching"
                ELSE IF FetcherCatches("mkdir") THEN "done" ELSE "raised"
     IN /\ semValue' = rel.value
        /\ UNCHANGED semWaiters
        /\ pc' = [v \in Units |-> IF v = u THEN upc
                                  ELSE IF v \in rel.woken THEN "woken" ELSE pc[v]]
        /\ gen' = [gen EXCEPT ![u] = g]
        /\ url' = [url EXCEPT ![u] = IF GenRaises(g) THEN Unset ELSE GenUrl(g)]
        /\ IF ~GenRaises(g) /\ Truthy(GenUrl(g))
           THEN /\ fetchCalls' = [fetchCalls EXCEPT ![u] = @ + 1]
                /\ IF m = "ok"
                   THEN /\ dirs' = dirs \cup {dir}
                        /\ path' = [path EXCEPT ![u] = TargetPath(dir, now)]
                        /\ stamp' = [stamp EXCEPT ![u] = now]
                        /\ getCalls' = [getCalls EXCEPT ![u] = @ + 1]
                        /\ UNCHANGED <<ret, dl>>
                   ELSE /\ dl' = [dl EXCEPT ![u] = "mkdir"]
                        /\ ret' = [ret EXCEPT ![u] =
                                     IF FetcherCatches("mkdir") THEN NoPath ELSE @]
                        /\ UNCHANGED <<dirs, path, stamp, getCalls>>
           ELSE UNCHANGED <<fetchCalls, dirs, path, stamp, getCalls, ret, dl>>
  /\ UNCHANGED <<mainpc, inputVars, tasks, b64, sent, genCalls, writes, now, files>>

\* Variant: a failed GET is issued again.
FetchReturnRetry(u, o) ==
  /\ mainpc = "gathering"
  /\ pc[u] = "fetching"
  /\ o /= "ok" => o \in env
  /\ pc' = [pc EXCEPT ![u] = IF o = "get" THEN "fetching" ELSE "done"]
  /\ getCalls' = [getCalls EXCEPT ![u] = IF o = "get" THEN @ + 1 ELSE @]
  /\ ret' = [ret EXCEPT ![u] = IF o = "ok" THEN path[u] ELSE IF o = "get" THEN @ ELSE NoPath]
  /\ files' = WriteBytes(files, path[u], o)
  /\ writes' = [writes EXCEPT ![u] = IF o = "ok" THEN @ + 1 ELSE @]
  /\ dl' = [dl EXCEPT ![u] = IF o = "get" THEN @ ELSE o]
  /\ path' = [path EXCEPT ![u] = IF o = "get" THEN @ ELSE UnsetPath]
  /\ stamp' = [stamp EXCEPT ![u] = IF o = "ok" THEN @ ELSE -1]
  /\ UNCHANGED <<mainpc, inputVars, tasks, b64, sent, gen, url, genCalls,
                 fetchCalls, semVars, now, dirs>>

\* The download answers o: write the file or return None; the task ends.
FetchReturn(u, o) ==
  /\ mainpc = "gathering"
  /\ pc[u] = "fetching"
  /\ o /= "ok" => o \in env
  /\ LET caught == o = "ok" \/ FetcherCatches(o)
     IN /\ pc' = [pc EXCEPT ![u] = IF caught THEN "done" ELSE "raised"]
        /\ ret' = [ret EXCEPT ![u] = IF o = "ok" THEN path[u]
                                     ELSE IF caught THEN NoPath ELSE @]
  /\ files' = WriteBytes(files, path[u], o)
  /\ writes' = [writes EXCEPT ![u] = IF o = "ok" THEN @ + 1 ELSE @]
  /\ dl' = [dl EXCEPT ![u] = o]
  /\ path' = [path EXCEPT ![u] = UnsetPath]
  /\ stamp' = [stamp EXCEPT ![u] = IF o = "ok" THEN @ ELSE -1]
  /\ UNCHANGED <<mainpc, inputVars, tasks, b64, sent, gen, url, genCalls,
                 fetchCalls, getCalls, semVars, now, dirs>>

\* The wall clock advances while the batch runs.
Tick ==
  /\ mainpc = "gathering"
  /\ "tick" \in env
  /\ now < MaxClock
  /\ now' = now + 1
  /\ UNCHANGED <<mainpc, inputVars, tasks, unitVars, semVars, diskVars>>

Next ==
  \/ Launch
  \/ \E u \in Units : Start(u)
  \/ \E u \in Units : Wakeup(u)
  \/ \E u \in Units, g \in GenOutcomes, m \in {"ok", "mkdir"} : GenerateReturn(u, g, m)
  \/ \E u \in Units, o \in FetchOutcomes : FetchReturn(u, o)
  \/ GatherReturn
  \/ Tick

Spec == Init /\ [][Next]_vars

\* A step of the program or an answer of the service or of the download
\* server: every step of Next but the tick of the clock.
Progress ==
  \/ Launch
  \/ \E u \in Units : Start(u)
  \/ \E u \in Units : Wakeup(u)
  \/ \E u \in Units, g \in GenOutcomes, m \in {"ok", "mkdir"} : GenerateReturn(u, g, m)
  \/ \E u \in Units, o \in FetchOutcomes : FetchReturn(u, o)
  \/ GatherReturn

\* The event loop runs a ready task whenever there is one, and while calls are
\* pending one of them eventually answers.
Fairness == WF_vars(Progress)

\* The batches of Init in which the encoder finds the first reference file and
\* misses the second.
FairInit == Init /\ inputDir[FileA] = "ok" /\ inputDir[FileB] = "missing"

FairSpec == FairInit /\ [][Next]_vars /\ Fairness

----------------------------------------------------------------------------
(* Properties *)

\* The units that hold a permit of sem: between acquire and release.
Admitted == {u \in Units : pc[u] \in {"woken", "generating"}}

\* The units whose remote generation call is in flight.
InFlight == {u \in Units : pc[u] = "generating"}

DirOf(u) == OutputDir(tasks[u].batch_subdir)
FilesIn(d) == {f \in files : f.dir = d}
Successful(d) == {u \in Units : dl[u] = "ok" /\ DirOf(u) = d}
GenFailed(u) == gen[u] \in {"generate", "data", "nourl"}

\* C1: at most N = 5 units are between acquiring and releasing the semaphore,
\* whatever the number of launched units.
C1_GateBound ==
  /\ SemPermits = 5
  /\ Cardinality(Admitted) <= SemPermits
  /\ Cardinality(InFlight) <= SemPermits

\* More than 5 units launched, 5 calls in flight, the others queued.
C1_Witness ==
  /\ Cardinality(Units) > SemPermits
  /\ Cardinality(InFlight) = SemPermits
  /\ Pending(semWaiters) /= << >>

\* C2: the permits held are exactly those of the units inside the generation
\* call, a call is in flight only under a permit, the permit is back once the
\* call has answered (success or failure), the counter stays in 0..5, and all 5
\* permits are free once every unit has resolved.
C2_PermitAccounting ==
  /\ semValue \in 0..SemPermits
  /\ SemPermits - semValue = Cardinality(Admitted)
  /\ \A u \in Units : (genCalls[u] > 0 /\ gen[u] = Unset) => u \in InFlight
  /\ \A u \in Units : gen[u] /= Unset => u \notin Admitted
  /\ (\A u \in Units : pc[u] = "done") => semValue = SemPermits

\* A batch of more than 5 units has resolved, with failed and successful calls.
C2_Witness ==
  /\ Cardinality(Units) > SemPermits
  /\ \A u \in Units : pc[u] = "done"
  /\ \E u, v \in Units : gen[u] = "generate" /\ gen[v] = "locator"
  /\ semValue = SemPermits

\* C3: whatever faults the encoder, the generation client and the fetcher meet,
\* no unit ends with an exception and the gather of main() never raises.
C3_NeverRaises ==
  /\ \A u \in Units : pc[u] /= "raised"
  /\ mainpc /= "crashed"

\* A batch completed in which one unit met an encoder fault, one a client fault
\* and one a fetcher fault.
C3_Witness ==
  /\ mainpc = "done"
  /\ \E u \in Units : inputDir[tasks[u].ref_file] = "unreadable" /\ b64[u] = NoB64
  /\ \E u \in Units : gen[u] = "generate"
  /\ \E u \in Units : dl[u] = "mkdir"
  /\ \E u \in Units : dl[u] \in {"get", "status", "write"}

\* C4: a unit whose generation failed ends normally and writes nothing, the batch
\* is not aborted, every unit whose generation and download succeeded has its
\* artifact on disk, and no file comes from anything but a successful fetch.
C4_Isolation ==
  /\ \A u \in Units : GenFailed(u) =>
        pc[u] = "done" /\ writes[u] = 0 /\ ret[u] = UnsetPath /\ mainpc /= "crashed"
  /\ \A u \in Units : (gen[u] = "locator" /\ dl[u] = "ok") =>
        pc[u] = "done" /\ writes[u] = 1 /\ ret[u] \in files
  /\ \A f \in files : \E u \in Units : dl[u] = "ok" /\ ret[u] = f

\* Three units, the service failed one of them, the other two have artifacts.
C4_Witness ==
  /\ mainpc = "done"
  /\ Cardinality(Units) = 3
  /\ Cardinality({u \in Units : GenFailed(u)}) = 1
  /\ Cardinality({u \in Units : dl[u] = "ok" /\ ret[u] \in files}) = 2
  /\ Cardinality(files) = 2

\* C5: under Fairness the batch reaches its completed state with every unit
\* admitted through the gate once and resolved.
C5_Completes ==
  <>(mainpc = "done" /\ \A u \in Units : genCalls[u] = 1 /\ pc[u] = "done")

\* A batch of more than 5 units completed, every unit admitted.
C5_Witness ==
  /\ mainpc = "done"
  /\ Cardinality(Units) > SemPermits
  /\ \A u \in Units : genCalls[u] = 1 /\ pc[u] = "done"

\* C6: every unit of the cross product is launched, and the completion marker
\* is reached only when no unit is still encoding, waiting, generating or
\* fetching.
C6_FanIn ==
  /\ mainpc /= "setup" => Cardinality(Units) = Len(names) * Len(listing)
  /\ mainpc = "done" => \A u \in Units : pc[u] = "done"

\* Completion reported after units resolved out of launch order: a later unit
\* read the clock for its file name before an earlier one.
C6_Witness ==
  /\ mainpc = "done"
  /\ \E u, v \in Units : u < v /\ dl[u] = "ok" /\ dl[v] = "ok" /\ stamp[v] < stamp[u]

\* C7: a unit whose generation failed (exception, empty data, no url) ends
\* without a fetch: no call of the fetcher, no GET, no path, and every directory
\* and file under output/ belongs to a unit that got a locator; main() does not
\* crash.
C7_FetchSkipped ==
  /\ \A u \in Units : GenFailed(u) =>
        /\ pc[u] = "done"
        /\ url[u] = None
        /\ fetchCalls[u] = 0 /\ getCalls[u] = 0 /\ writes[u] = 0
        /\ path[u] = UnsetPath /\ ret[u] = UnsetPath /\ dl[u] = Unset
  /\ \A d \in dirs : \E u \in Units : gen[u] = "locator" /\ DirOf(u) = d
  /\ \A f \in files : \E u \in Units : gen[u] = "locator" /\ ret[u] = f
  /\ mainpc /= "crashed"

\* A completed batch with a service error, a response without locator, and
\* nothing on disk.
C7_Witness ==
  /\ mainpc = "done"
  /\ \E u, v \in Units : gen[u] = "generate" /\ gen[v] \in {"data", "nourl"}
  /\ \A u \in Units : GenFailed(u)
  /\ dirs = {} /\ files = {}

\* C8: a unit whose reference file is missing or unreadable gets None from the
\* encoder without an exception, still makes its generation call, with image
\* None, and has its artifact on disk when the call and the download succeed.
C8_DegradeToNoReference ==
  \A u \in Units :
    (pc[u] /= "new" /\ inputDir[tasks[u].ref_file] \in {"missing", "unreadable"}) =>
       /\ pc[u] /= "raised"
       /\ b64[u] = NoB64
       /\ genCalls[u] > 0 => sent[u] = NoB64
       /\ pc[u] \in {"generating", "fetching", "done"} => genCalls[u] = 1
       /\ dl[u] = "ok" => writes[u] = 1 /\ ret[u] \in files

\* One unit with a missing file and one with an unreadable file, both with an
\* artifact.
C8_Witness ==
  \E u, v \in Units :
    /\ inputDir[tasks[u].ref_file] = "missing"
    /\ inputDir[tasks[v].ref_file] = "unreadable"
    /\ sent[u] = NoB64 /\ sent[v] = NoB64
    /\ dl[u] = "ok" /\ dl[v] = "ok"
    /\ ret[u] \in files /\ ret[v] \in files

\* C9: a unit makes one generation call, at most one fetch with at most one GET
\* and one write; with a locator it fetches once, and with a locator and a
\* successful download it has written exactly one artifact.
C9_OneCallOneArtifact ==
  \A u \in Units :
    /\ genCalls[u] <= 1 /\ fetchCalls[u] <= 1 /\ getCalls[u] <= 1 /\ writes[u] <= 1
    /\ pc[u] \in {"generating", "fetching", "done"} => genCalls[u] = 1
    /\ (pc[u] = "done" /\ gen[u] = "locator") => fetchCalls[u] = 1
    /\ (pc[u] = "done" /\ dl[u] = "ok") => writes[u] = 1 /\ ret[u] \in files
    /\ writes[u] = 1 => gen[u] = "locator" /\ dl[u] = "ok"

\* Scenario A: one unit, reference present, locator returned, download fine.
C9_Witness ==
  /\ mainpc = "done"
  /\ Cardinality(Units) = 1
  /\ \A u \in Units :
       /\ inputDir[tasks[u].ref_file] = "ok" /\ sent[u] /= NoB64
       /\ gen[u] = "locator" /\ dl[u] = "ok"
       /\ FilesIn(DirOf(u)) = {ret[u]}

\* C10 as stated: two successful fetches into one directory never share a file
\* name, and a directory holds as many files as fetches into it succeeded.
C10_NoCollision ==
  /\ \A u, v \in Units :
       (u /= v /\ dl[u] = "ok" /\ dl[v] = "ok" /\ DirOf(u) = DirOf(v)) => ret[u] /= ret[v]
  /\ \A d \in dirs : Cardinality(FilesIn(d)) = Cardinality(Successful(d))

\* C10 as amended: two successful fetches into one directory share a file name
\* exactly when they read the same clock value, and a directory holds as many
\* files as there are distinct clock values read by the successful fetches
\* into it.
C10_DistinctStamps ==
  /\ \A u, v \in Units :
       (dl[u] = "ok" /\ dl[v] = "ok" /\ DirOf(u) = DirOf(v)) =>
          (ret[u] = ret[v] <=> stamp[u] = stamp[v])
  /\ \A d \in dirs :
       Cardinality(FilesIn(d)) = Cardinality({stamp[u] : u \in Successful(d)})

\* Two successful fetches into one directory at distinct clock values: two files.
C10_Witness ==
  \E u, v \in Units :
    /\ dl[u] = "ok" /\ dl[v] = "ok" /\ DirOf(u) = DirOf(v)
    /\ stamp[u] /= stamp[v]
    /\ Cardinality(FilesIn(DirOf(u))) = 2

\* C11 as stated: a unit whose mkdir failed ends with an exception, and a batch
\* in which a mkdir failed does not reach its completed state.
C11_MkdirPropagates ==
  /\ \A u \in Units : dl[u] = "mkdir" => pc[u] = "raised"
  /\ mainpc = "done" => \A u \in Units : dl[u] /= "mkdir"

\* C11 as amended: a failed mkdir is absorbed like the other faults of the
\* fetch: the unit ends normally, image_url_to_localpath returned None before
\* any GET, nothing was written, and main() does not crash.
C11_MkdirAbsorbed ==
  /\ \A u \in Units : dl[u] = "mkdir" =>
        /\ pc[u] = "done"
        /\ gen[u] = "locator" /\ fetchCalls[u] = 1
        /\ ret[u] = NoPath /\ path[u] = UnsetPath
        /\ getCalls[u] = 0 /\ writes[u] = 0
  /\ (\E u \in Units : dl[u] = "mkdir") => mainpc /= "crashed"

\* A batch completed although the mkdir of one unit failed, and a sibling of
\* that unit wrote its artifact.
C11_Witness ==
  /\ mainpc = "done"
  /\ \E u, v \in Units : dl[u] = "mkdir" /\ dl[v] = "ok" /\ ret[v] \in files

\* The steps the program can take while no generation call answers.
WithoutAnswer ==
  \/ Launch
  \/ \E u \in Units : Start(u)
  \/ \E u \in Units : Wakeup(u)
  \/ \E u \in Units, o \in FetchOutcomes : FetchReturn(u, o)
  \/ GatherReturn

\* The units that are queued on the semaphore or downloading: they hold no
\* permit and have not finished.
Unpermitted == {u \in Units : pc[u] \in {"waiting", "fetching"}}

\* C12 as stated: while generation calls hang, also when they hold all 5
\* permits, a unit that holds no permit can still take a step, and so can the
\* batch.
C12_OnlyHoldersBlocked ==
  /\ \A u \in Unpermitted : ENABLED (Wakeup(u) \/ \E o \in FetchOutcomes : FetchReturn(u, o))
  /\ (mainpc = "gathering" /\ Cardinality(InFlight) = SemPermits) => ENABLED WithoutAnswer

\* C12 as amended: a hung call blocks the units queued behind it as well. A
\* unit in the fetch stage can always go on; a queued unit exists only while
\* all 5 permits are out or a woken waiter has yet to run, and cannot resume by
\* itself; once every unit is in a call or queued behind one, nothing runs
\* until a call answers; and gather does not return while a call is in flight.
C12_QueuedUnitsBlocked ==
  /\ \A u \in Units : pc[u] = "fetching" => ENABLED (\E o \in FetchOutcomes : FetchReturn(u, o))
  /\ \A u \in Units : pc[u] = "waiting" =>
        /\ Cardinality(Admitted) = SemPermits \/ \E v \in Units : pc[v] = "woken"
        /\ ~ENABLED Wakeup(u)
  /\ (/\ mainpc = "gathering"
      /\ Cardinality(InFlight) = SemPermits
      /\ \A u \in Units : pc[u] \in {"generating", "waiting", "done"})
        => ~ENABLED WithoutAnswer
  /\ InFlight /= {} => ~ENABLED GatherReturn /\ mainpc = "gathering"

\* All 5 permits are held by calls in flight, a sixth unit is queued, and no
\* step is possible unless one of the calls answers.
C12_Witness ==
  /\ Cardinality(InFlight) = SemPermits
  /\ \E u \in Units : pc[u] = "waiting" /\ b64[u] /= UnsetB64
  /\ \A u \in Units : pc[u] \in {"generating", "waiting"}
  /\ ~ENABLED WithoutAnswer

\* C13 as stated: all units of a run carry one batch tag, and a run creates at
\* most one output directory and writes all its artifacts there.
C13_OneSharedTag ==
  /\ \A u, v \in Units : tasks[u].batch_subdir = tasks[v].batch_subdir
  /\ Cardinality(dirs) <= 1
  /\ \A f, g \in files : f.dir = g.dir

\* C13 as amended: the tag of a unit is its reference file name with every "."
\* replaced by "_", so units share a tag exactly as far as their file names
\* give the same tag; every directory created and every artifact written lies
\* under the tag of the unit that fetched it, and a run creates no more
\* directories than it has reference files.
C13_TagPerReferenceFile ==
  /\ \A u \in Units : tasks[u].batch_subdir = Replace(tasks[u].ref_file, ".", "_")
  /\ \A u, v \in Units : tasks[u].ref_file = tasks[v].ref_file
                           => tasks[u].batch_subdir = tasks[v].batch_subdir
  /\ \A d \in dirs : \E u \in Units : fetchCalls[u] = 1 /\ d = <<"output">> \o tasks[u].batch_subdir
  /\ \A f \in files :
        \E u \in Units : dl[u] = "ok" /\ ret[u] = f /\ f.dir = <<"output">> \o tasks[u].batch_subdir
  /\ Cardinality(dirs) <= Cardinality({listing[j] : j \in DOMAIN listing})

\* A completed run with two reference files whose artifacts lie in two
\* different output directories.
C13_Witness ==
  /\ mainpc = "done"
  /\ Len(listing) = 2
  /\ \E u, v \in Units :
        /\ tasks[u].ref_file = FileA /\ tasks[v].ref_file = FileB
        /\ dl[u] = "ok" /\ dl[v] = "ok"
        /\ ret[u] \in files /\ ret[v] \in files
        /\ ret[u].dir /= ret[v].dir
  /\ Cardinality(dirs) = 2

\* The units suspended in Semaphore.acquire: queued, or woken and not yet run.
InAcquire == {u \in Units : pc[u] \in {"waiting", "woken"}}

\* The payload the encoder returns for a readable file.
Payload(filename) == DataUri(B64Encode(ReadBytes(filename)))

\* C14 as stated: a unit holds an encoded payload only while its generation
\* call is in flight, not while it waits for a permit or fetches.
C14_PayloadOnlyDuringCall ==
  \A u \in Units : pc[u] \in {"waiting", "woken", "fetching"} => b64[u] \in {NoB64, UnsetB64}

\* C14 as amended: run_single_task encodes before it asks for a permit and
\* keeps the payload until it returns: from its start on, through the wait in
\* acquire, the call and the fetch, a unit of a readable file holds the payload
\* of that file, and its one generation call was sent exactly that payload.
C14_PayloadHeldThroughout ==
  \A u \in Units :
    /\ (pc[u] \in {"waiting", "woken", "generating", "fetching"}
          /\ inputDir[tasks[u].ref_file] = "ok")
         => b64[u] = Payload(tasks[u].ref_file)
    /\ pc[u] \in {"waiting", "woken"} => sent[u] = UnsetB64 /\ genCalls[u] = 0
    /\ pc[u] \in {"generating", "fetching"} => sent[u] = b64[u] /\ genCalls[u] = 1
    /\ genCalls[u] <= 1

\* One unit is in the fetch stage and another is still suspended in acquire,
\* and both hold the payload of their file.
C14_Witness ==
  \E u, v \in Units :
    /\ pc[u] = "fetching" /\ v \in InAcquire
    /\ b64[u] = Payload(tasks[u].ref_file)
    /\ b64[v] = Payload(tasks[v].ref_file)

\* The units built for name i and file j.
UnitsOf(i, j) == {u \in Units : tasks[u].prompt = names[i] /\ tasks[u].ref_file = listing[j]}

\* C15: once main() has built tasks_to_run there is exactly one unit for each
\* pair of a name and a listed file, no unit for anything else, hence
\* |names| * |files| units; with an empty listing there is no unit and gather
\* returns at once.
C15_CrossProduct ==
  mainpc /= "setup" =>
    /\ \A i \in DOMAIN names, j \in DOMAIN listing : Cardinality(UnitsOf(i, j)) = 1
    /\ \A u \in Units : \E i \in DOMAIN names, j \in DOMAIN listing : u \in UnitsOf(i, j)
    /\ Cardinality(Units) = Len(names) * Len(listing)
    /\ Len(tasks) = Len(names) * Len(listing)
    /\ listing = << >> =>
         /\ Units = {}
         /\ mainpc \in {"gathering", "done"}
         /\ mainpc = "gathering" => ENABLED (GatherReturn /\ mainpc' = "done")

\* A completed batch of at least two names and two files.
C15_Witness ==
  /\ mainpc = "done"
  /\ Len(names) >= 2 /\ Len(listing) = 2
  /\ Cardinality(Units) = 2 * Len(names)
  /\ \E u, v \in Units : /\ tasks[u].prompt = tasks[v].prompt
                         /\ tasks[u].ref_file /= tasks[v].ref_file

\* The units of a file that does not exist in the input directory.
OfMissingFile == {u \in Units : inputDir[tasks[u].ref_file] = "missing"}

\* C16: in every step, encoding any nonexistent file would return None without
\* raising; the step in which a unit of a nonexistent file runs the encoder
\* gives that unit None, lets it go on to the semaphore, and leaves the disk
\* and every other unit's payload as they were; and no step changes the input
\* directory, so the next call finds the file as absent as the last one did.
C16_MissingFileIsNone ==
  [][/\ inputDir' = inputDir /\ listing' = listing
     /\ \A f \in FileNames : inputDir[f] = "missing" =>
           image_localpath_to_base64(f) = [val |-> NoB64, raised |-> FALSE]
     /\ \A u \in OfMissingFile : pc[u] /= "new" => b64[u] = NoB64 /\ pc[u] /= "raised"
     /\ \A u \in OfMissingFile : (pc[u] = "new" /\ pc'[u] /= "new") =>
           /\ b64'[u] = NoB64
           /\ pc'[u] \in {"generating", "waiting"}
           /\ \A v \in Units \ {u} : b64'[v] = b64[v] /\ pc'[v] = pc[v]
           /\ dirs' = dirs /\ files' = files]_vars

\* The encoder ran three times on the same nonexistent file, each time with
\* None, and the batch completed.
C16_Witness ==
  /\ mainpc = "done"
  /\ \E u, v, w \in OfMissingFile :
        /\ u /= v /\ v /= w /\ u /= w
        /\ tasks[u].ref_file = tasks[v].ref_file /\ tasks[v].ref_file = tasks[w].ref_file
        /\ b64[u] = NoB64 /\ b64[v] = NoB64 /\ b64[w] = NoB64

\* The units whose download is awaited.
Fetching == {u \in Units : pc[u] = "fetching"}

\* The units outside image_generate_api: not started, downloading, or ended.
Ungated == {u \in Units : pc[u] \in {"new", "fetching", "done", "raised"}}

\* C17: the permits that are out belong to units that are neither outside
\* image_generate_api nor queued in front of it; a downloading unit has already
\* had its one generation call answered and is not in the semaphore's queue;
\* and when every unit is outside image_generate_api all 5 permits are free,
\* however many of them are downloading.
C17_OnlyGenerationGated ==
  /\ SemPermits - semValue = Cardinality(Units \ (Ungated \cup {u \in Units : pc[u] = "waiting"}))
  /\ \A u \in Fetching :
        /\ gen[u] = "locator" /\ genCalls[u] = 1 /\ fetchCalls[u] = 1
        /\ \A k \in DOMAIN semWaiters : semWaiters[k] /= u
  /\ Units = Ungated => semValue = SemPermits /\ semWaiters = << >>

\* More than 5 downloads are in progress at once and all 5 permits are free.
C17_Witness ==
  /\ Cardinality(Fetching) > SemPermits
  /\ semValue = SemPermits

\* The units whose GET failed in transport or answered a non-success status.
GetFailed == {u \in Units : dl[u] \in {"get", "status"}}

====
